---- MODULE Spec2Model ----
(***************************************************************************)
(* The time-series augmentation operators of python-fdda:                  *)
(*   fdda/dshuffle.py          dominant_shuffle                            *)
(*   fdda/staug.py             emd_augmentation, mix_augmentation          *)
(*   pdda/augments/wave_aug.py WaveAug.augment, WaveAug.augment_multi      *)
(*                                                                         *)
(* Arithmetic is exact.  Every array carries a denominator `den`: the      *)
(* value of element k of array a is a.data[k] / a.den.  Input signals      *)
(* have den = 1.  An optional value (None in the source) is a sequence of  *)
(* length 0 or 1.                                                          *)
(***************************************************************************)
EXTENDS Integers, Sequences, FiniteSets, TLC

VARIABLES
    pc,     \* "idle" before the call, then "returned" or "raised"
    op,     \* the operator called
    arg,    \* the arguments as the caller passed them
    sig1,   \* the caller's first signal array, as it is after the call
    sig2,   \* the caller's second signal array, as it is after the call
    out,    \* the array returned (NoArray when the call raised)
    err,    \* the exception raised ("" when the call returned)
    aux,    \* what the call computed on the way (spectra, coefficients, draws)
    rng,    \* the state of the process-wide generator behind np.random
    heap,   \* the arrays the running calls have created, by the call that made them
    calls   \* the running calls: arguments, position, locals, draws, result

callvars == <<pc, op, arg, sig1, sig2, out, err, aux>>
concvars == <<rng, heap, calls>>
vars == <<pc, op, arg, sig1, sig2, out, err, aux, rng, heap, calls>>

\* ------------------------------------------------------------------ bounds
MaxVal == 1
MaxLevel == 2
MaxModes == 2

\* ------------------------------------------------------------ input sets
SignalValues == -1..MaxVal
TimeSteps == {1, 2, 3, 4}
None == <<>>
Some(v) == <<v>>

Min(a, b) == IF a <= b THEN a ELSE b
Max(a, b) == IF a >= b THEN a ELSE b

\* a function on 1..n as the tuple of its values (computed once, not at each use)
Tup(f) == f \o <<>>

RECURSIVE Prod(_)
Prod(s) == IF s = <<>> THEN 1 ELSE Head(s) * Prod(Tail(s))

RECURSIVE SeqProduct(_)
\* the sequences whose k-th element is drawn from sets[k]
SeqProduct(sets) ==
    IF Len(sets) = 0 THEN {<<>>}
    ELSE {<<h>> \o t : h \in sets[1], t \in SeqProduct(Tail(sets))}

\* numpy.ndarray: shape, the elements in row-major order, and the scale
Array(shape, data, den) == [shape |-> shape, data |-> Tup(data), den |-> den]
ndim(a) == Len(a.shape)
NoArray == Array(<<0>>, <<>>, 1)

Shapes1 == {<<T>> : T \in TimeSteps}
Features == {1, 2}
Shapes2 == {s \in TimeSteps \X Features : s[1] * s[2] <= 4}
\* rank 0 and rank 3: not a (time_steps,) or (time_steps, features) signal
BadRankShapes == {<<>>, <<1, 1, 1>>, <<2, 1, 1>>}

ArraysOf(shape) ==
    {Array(shape, d, 1) : d \in [1..Prod(shape) -> SignalValues]}

Signals == UNION {ArraysOf(s) : s \in Shapes1 \cup Shapes2}
BadRankSignals == UNION {ArraysOf(s) : s \in BadRankShapes}

\* ------------------------------------------------- shape normalisation
\* signal.reshape(-1, 1) of a rank-1 signal
reshape(a) == Array(<<a.shape[1], 1>>, a.data, a.den)
\* augmented_signal.flatten()
flatten(a) == Array(<<Len(a.data)>>, a.data, a.den)
\* signal[:, i] of a rank-2 array (i from 1)
Col(a, i) == Tup([t \in 1..a.shape[1] |-> a.data[(t - 1) * a.shape[2] + i]])
\* the (T, F) array whose columns are cols[1..F], each of length T
FromCols(cols, T, F, den) ==
    Array(<<T, F>>, [k \in 1..(T * F) |-> cols[((k - 1) % F) + 1][((k - 1) \div F) + 1]], den)

\* ------------------------------------------------------ post-processing
\* augmented_signal += offset
AddOffset(a, offset) ==
    Array(a.shape, [k \in 1..Len(a.data) |-> a.data[k] + offset * a.den], a.den)

\* np.clip(a, clip_min, clip_max) = minimum(maximum(a, clip_min), clip_max)
ClipValue(x, den, clip_min, clip_max) ==
    LET lo == IF clip_min = None THEN x ELSE Max(x, clip_min[1] * den)
    IN  IF clip_max = None THEN lo ELSE Min(lo, clip_max[1] * den)

Clip(a, clip_min, clip_max) ==
    IF clip_min # None \/ clip_max # None
    THEN Array(a.shape, [k \in 1..Len(a.data) |->
                 ClipValue(a.data[k], a.den, clip_min, clip_max)], a.den)
    ELSE a

\* the other order: clip first, offset second
PostProcessClipFirst(a, offset, clip_min, clip_max) ==
    AddOffset(Clip(a, clip_min, clip_max), offset)

\* augmented_signal += offset, then np.clip if a bound is given
PostProcess(a, offset, clip_min, clip_max) ==
    Clip(AddOffset(a, offset), clip_min, clip_max)

\* <<offset, clip_min, clip_max>>; the last one has clip_min > clip_max
PostParams ==
    {<<0, None, None>>, <<1, None, None>>, <<1, Some(0), None>>,
     <<1, None, Some(1)>>, <<1, Some(0), Some(1)>>, <<0, Some(2), Some(1)>>}

\* The value of a is unchanged, its scale becomes a.den * d
Rescale(a, d) == Array(a.shape, [k \in 1..Len(a.data) |-> a.data[k] * d], a.den * d)
\* a and b hold the same values in the same shape
SameArray(a, b) ==
    /\ a.shape = b.shape
    /\ Len(a.data) = Len(b.data)
    /\ \A k \in 1..Len(a.data) : a.data[k] * b.den = b.data[k] * a.den

SameRank(a, b) == ndim(a) = ndim(b)
\* signal1.shape != signal2.shape, negated
SameShape(a, b) == a.shape = b.shape

\* The outcome of a call: what is returned or raised, and the caller's arrays
Returned(result, m, x) ==
    [pc |-> "returned", out |-> result, err |-> "", sig1 |-> m.signal1,
     sig2 |-> m.signal2, aux |-> x]
Raised(e, m, x) ==
    [pc |-> "raised", out |-> NoArray, err |-> e, sig1 |-> m.signal1,
     sig2 |-> m.signal2, aux |-> x]
\* The arrays alive in a call: the caller's two and the call's own buffer
Memory(s1, s2) == [signal1 |-> s1, signal2 |-> s2, work |-> NoArray]

Finish(name, a, r) ==
    /\ pc' = r.pc
    /\ op' = name
    /\ arg' = a
    /\ sig1' = r.sig1
    /\ sig2' = r.sig2
    /\ out' = r.out
    /\ err' = r.err
    /\ aux' = r.aux
    /\ UNCHANGED concvars

\* ------------------------------------------------------ mix_augmentation
\* lam = LamNum / LamDen, a draw of np.random.beta(alpha, alpha)
LamDen == 4
LamNums == {1, 2}
\* mix_rate = MixRate / MixRateDen
MixRateDen == 2
MixRates == {0, 1, 2, 3}

MixLengthCeil(T, mix_rate) == (T * mix_rate + MixRateDen - 1) \div MixRateDen
\* int(signal1.shape[0] * mix_rate)
MixLength(T, mix_rate) == (T * mix_rate) \div MixRateDen

MixedBufferAlias == "signal1"
\* mixed_signal = signal1.copy(): a new array
MixedBuffer == "work"

\* mixed_signal[:mix_length] = lam * signal1[:mix_length] + (1 - lam) * signal2[:mix_length]
MixPrefix(buf, s1, s2, lam, mix_length) ==
    LET b == Rescale(buf, LamDen)
        n == Min(mix_length, buf.shape[1]) * (Len(buf.data) \div buf.shape[1])
    IN  Array(b.shape,
              [k \in 1..Len(b.data) |->
                  IF k <= n
                  THEN lam * s1.data[k] + (LamDen - lam) * s2.data[k]
                  ELSE b.data[k]],
              b.den)

MixRun(s1, s2, lam, mix_rate, offset, clip_min, clip_max) ==
    LET m0 == Memory(s1, s2)
    IN  IF ~SameShape(s1, s2) THEN Raised("ValueError", m0, [lam |-> 0])
        ELSE IF ndim(s1) = 0 THEN Raised("IndexError", m0, [lam |-> lam])
        ELSE
          LET mix_length == MixLength(s1.shape[1], mix_rate)
              m1 == [m0 EXCEPT ![MixedBuffer] = m0.signal1]
              m2 == [m1 EXCEPT ![MixedBuffer] =
                        MixPrefix(m1[MixedBuffer], m1.signal1, m1.signal2, lam, mix_length)]
              m3 == [m2 EXCEPT ![MixedBuffer] = AddOffset(m2[MixedBuffer], offset)]
          IN  Returned(Clip(m3[MixedBuffer], clip_min, clip_max), m3,
                       [lam |-> lam, mix_length |-> mix_length])

\* The second signal of a two-signal operator: the first one itself, a constant
\* signal of the same shape, the first one reversed, or one of another shape
Reversed(a) == Array(a.shape, [k \in 1..Len(a.data) |-> a.data[Len(a.data) + 1 - k]], a.den)
Constant(a, v) == Array(a.shape, [k \in 1..Len(a.data) |-> v], a.den)
OtherShape(a) ==
    IF ndim(a) = 1 THEN Array(<<a.shape[1] + 1>>, a.data \o <<0>>, a.den)
    ELSE flatten(a)
Partners(a) == {a, Reversed(a), OtherShape(a)} \cup {Constant(a, v) : v \in SignalValues}

mix_augmentation ==
    /\ pc = "idle"
    /\ \E s1 \in Signals \cup BadRankSignals, lam \in LamNums, mix_rate \in MixRates,
          pp \in PostParams :
         \E s2 \in Partners(s1) :
           Finish("mix_augmentation",
                  [signal1 |-> s1, signal2 |-> s2, mix_rate |-> mix_rate,
                   offset |-> pp[1], clip_min |-> pp[2], clip_max |-> pp[3]],
                  MixRun(s1, s2, lam, mix_rate, pp[1], pp[2], pp[3]))

\* ------------------------------------------------------ dominant_shuffle
\* A spectral value is <<a, b>>, the complex number a + b*u, u = exp(-2*pi*i/T).
\* u^m as such a pair, for the T this model covers
Pow(T, m) ==
    LET j == ((m % T) + T) % T
    IN  CASE T = 1 -> <<1, 0>>
          [] T = 2 -> <<<<1, 0>>, <<-1, 0>>>>[j + 1]
          [] T = 3 -> <<<<1, 0>>, <<0, 1>>, <<-1, -1>>>>[j + 1]
          [] T = 4 -> <<<<1, 0>>, <<0, 1>>, <<-1, 0>>, <<0, -1>>>>[j + 1]
\* 2 * cos(2*pi*m/T) = 2 * Re(u^m)
TwoCos(T, m) ==
    LET j == ((m % T) + T) % T
    IN  CASE T = 1 -> 2
          [] T = 2 -> <<2, -2>>[j + 1]
          [] T = 3 -> <<2, -1, -1>>[j + 1]
          [] T = 4 -> <<2, 0, -2, 0>>[j + 1]

RECURSIVE DftSum(_, _, _, _)
DftSum(x, T, k, n) ==
    IF n = 0 THEN <<0, 0>>
    ELSE LET r == DftSum(x, T, k, n - 1)
             w == Pow(T, k * (n - 1))
         IN  <<r[1] + x[n] * w[1], r[2] + x[n] * w[2]>>

\* np.fft.rfft of one column: bins 0..T div 2, bin k at position k + 1
rfft(x) == LET T == Len(x) IN Tup([p \in 1..((T \div 2) + 1) |-> DftSum(x, T, p - 1, T)])

\* the square of np.abs(z), for a bin of a length-T transform
Mag2(T, z) == z[1] * z[1] + z[2] * z[2] + z[1] * z[2] * TwoCos(T, 1)

\* 2 * Re(z)
TwoRe(T, z) == 2 * z[1] + z[2] * TwoCos(T, 1)

RECURSIVE IrfftSum(_, _, _, _)
IrfftSum(X, T, n, k) ==
    IF k = 0 THEN 0
    ELSE IrfftSum(X, T, n, k - 1)
         + 2 * (X[k + 1][1] * TwoCos(T, -(k * n)) + X[k + 1][2] * TwoCos(T, 1 - k * n))

\* np.fft.irfft(X, n=T) of one column, times 2*T: the imaginary parts of the DC
\* bin and (T even) of the last bin are not read
irfft(X, T) ==
    Tup([t \in 1..T |->
        TwoRe(T, X[1])
        + IrfftSum(X, T, t - 1, (T - 1) \div 2)
        + (IF T % 2 = 0 THEN TwoRe(T, X[(T \div 2) + 1]) * (IF (t - 1) % 2 = 0 THEN 1 ELSE -1)
           ELSE 0)])

Perms(n) == {p \in [1..n -> 1..n] : \A i, j \in 1..n : i # j => p[i] # p[j]}

\* np.argsort(magnitude) of one column: the bins 1..n in ascending magnitude; the
\* order of equal magnitudes is the sort's own
Argsorts(X, T) ==
    LET n == Len(X) - 1
    IN  {p \in Perms(n) :
            \A i, j \in 1..n : i < j => Mag2(T, X[p[i] + 1]) <= Mag2(T, X[p[j] + 1])}

SliceStartEmpty(n, rate) == IF rate = 0 THEN 0 ELSE IF rate >= n THEN n ELSE n - rate
\* where a[-int(rate):] starts in a sequence of n: -0 is 0, the whole sequence
SliceStart(n, rate) == IF rate = 0 THEN 0 ELSE IF rate >= n THEN 0 ELSE n - rate

\* topk_indices of one column: argsort(...)[-int(rate):] + 1
Topk(order, rate) ==
    LET n == Len(order)
    IN  Tup([j \in 1..(n - SliceStart(n, rate)) |-> order[SliceStart(n, rate) + j]])

RECURSIVE ShuffleColumn(_, _, _, _, _)
\* the inner loop of one feature, iterations 1..j: bin topk[j] takes the value the
\* original spectrum holds at topk[draw[j]]
ShuffleColumn(new_signal_f, signal_f, topk, draw, j) ==
    IF j = 0 THEN new_signal_f
    ELSE [ShuffleColumn(new_signal_f, signal_f, topk, draw, j - 1)
             EXCEPT ![topk[j] + 1] = signal_f[topk[draw[j]] + 1]]

Rates == {0, 1, 2, 4}

\* what the call draws for a (T, F) signal: per column an argsort and the choices
ShuffleDraws(s2d, rate) ==
    LET T == s2d.shape[1]
        F == s2d.shape[2]
        n == T \div 2
        k == n - SliceStart(n, rate)
    IN  {[order |-> o, choice |-> c] :
            o \in SeqProduct([i \in 1..F |-> Argsorts(rfft(Col(s2d, i)), T)]),
            c \in [1..F -> [1..k -> 1..k]]}

ShuffleRun(signal, rate, offset, clip_min, clip_max, d) ==
    LET m0 == Memory(signal, NoArray)
        s2d == IF ndim(signal) = 1 THEN reshape(signal) ELSE signal
    IN  IF ndim(s2d) # 2 THEN Raised("ValueError", m0, [rank |-> ndim(signal)])
        ELSE
          LET time_steps == s2d.shape[1]
              features == s2d.shape[2]
              signal_f == Tup([i \in 1..features |-> rfft(Col(s2d, i))])
              topk_indices == Tup([i \in 1..features |-> Topk(d.order[i], rate)])
              new_signal_f == Tup([i \in 1..features |->
                  ShuffleColumn(signal_f[i], signal_f[i], topk_indices[i], d.choice[i],
                                Len(topk_indices[i]))])
              cols == Tup([i \in 1..features |-> irfft(new_signal_f[i], time_steps)])
              augmented == FromCols(cols, Len(cols[1]), features, 2 * time_steps)
              post == PostProcess(augmented, offset, clip_min, clip_max)
          IN  Returned(IF ndim(signal) = 1 THEN flatten(post) ELSE post, m0,
                       [signal_f |-> signal_f, topk_indices |-> topk_indices,
                        new_signal_f |-> new_signal_f])

dominant_shuffle ==
    /\ pc = "idle"
    /\ \E signal \in Signals \cup BadRankSignals, rate \in Rates, pp \in PostParams :
         \E d \in (IF ndim(signal) \in {1, 2}
                   THEN ShuffleDraws(IF ndim(signal) = 1 THEN reshape(signal) ELSE signal, rate)
                   ELSE {[order |-> <<>>, choice |-> <<>>]}) :
           Finish("dominant_shuffle",
                  [signal1 |-> signal, signal2 |-> NoArray, rate |-> rate,
                   offset |-> pp[1], clip_min |-> pp[2], clip_max |-> pp[3]],
                  ShuffleRun(signal, rate, pp[1], pp[2], pp[3], d))

\* ------------------------------------------------------ emd_augmentation
\* EMD().emd(s, max_imf=n_imf) with m modes: m - 1 oscillations (at most n_imf),
\* then what is left of s, so that the modes sum to s; no mode at all when m = 0
RECURSIVE EmdModes(_, _)
EmdModes(s, m) ==
    IF m = 0 THEN <<>>
    ELSE IF m = 1 THEN <<s>>
    ELSE LET osc == Tup([t \in 1..Len(s) |-> IF t % 2 = 0 THEN m - 1 ELSE 1 - m])
             rest == EmdModes(Tup([t \in 1..Len(s) |-> s[t] - osc[t]]), m - 1)
         IN  <<osc>> \o rest

\* imf_rate = ImfRate / ImfRateDen
ImfRateDen == 2
ImfRates == {1, 2, 3}
\* random_weight_prob = Prob / RandDen; np.random.rand() = Rand / RandDen
RandDen == 4
Probs == {0, 2, 4}
Rands == {1, 3}
\* the weights are numerators over WeightDen: 2 * (Rand / RandDen) = Rand / WeightDen
WeightDen == 2
NImfs == {1, 10}

NImfUseNoFloor(len, imf_rate) == (len * imf_rate) \div ImfRateDen
\* max(1, int(len(IMF) * imf_rate))
NImfUse(len, imf_rate) == Max(1, (len * imf_rate) \div ImfRateDen)

\* IMF[:n]
Prefix(seq, n) == SubSeq(seq, 1, Min(n, Len(seq)))

RECURSIVE WeightedSum(_, _, _, _)
\* np.sum(weights[:, np.newaxis] * IMF, axis=0) at time t, over modes 1..j
WeightedSum(weights, IMF, t, j) ==
    IF j = 0 THEN 0 ELSE WeightedSum(weights, IMF, t, j - 1) + weights[j] * IMF[j][t]

\* one column: the solver's modes and the draws, to the column of the result
\* (numerators over WeightDen)
EmdColumn(s, d, imf_rate) ==
    IF Len(d.IMF) = 0 THEN Tup([t \in 1..Len(s) |-> WeightDen * s[t]])
    ELSE
      LET IMF == Prefix(d.IMF, NImfUse(Len(d.IMF), imf_rate))
          weights == IF d.random THEN Tup([j \in 1..Len(IMF) |-> d.rand[j]])
                     ELSE Tup([j \in 1..Len(IMF) |-> WeightDen])
      IN  Tup([t \in 1..Len(s) |-> WeightedSum(weights, IMF, t, Len(IMF))])

\* what one column draws: the solver's answer, the Bernoulli trial, the weights
EmdColumnDraws(s, n_imf, imf_rate, prob) ==
    {[IMF |-> <<>>, random |-> FALSE, rand |-> <<>>]}
    \cup UNION {
        LET IMF == EmdModes(s, m)
            kept == Len(Prefix(IMF, NImfUse(m, imf_rate)))
        IN  {[IMF |-> IMF, random |-> FALSE, rand |-> <<>>] : u \in {r \in Rands : ~(r < prob)}}
            \cup {[IMF |-> IMF, random |-> TRUE, rand |-> w] :
                    w \in {x \in [1..kept -> Rands] : \E u \in Rands : u < prob}}
        : m \in 1..Min(n_imf + 1, MaxModes)}

EmdRun(signal, imf_rate, offset, clip_min, clip_max, d) ==
    LET m0 == Memory(signal, NoArray)
        s2d == IF ndim(signal) = 1 THEN reshape(signal) ELSE signal
    IN  IF ndim(s2d) # 2 THEN Raised("ValueError", m0, [rank |-> ndim(signal)])
        ELSE
          LET time_steps == s2d.shape[1]
              features == s2d.shape[2]
              cols == Tup([i \in 1..features |-> EmdColumn(Col(s2d, i), d[i], imf_rate)])
              augmented == FromCols(cols, time_steps, features, WeightDen)
              post == PostProcess(augmented, offset, clip_min, clip_max)
          IN  Returned(IF ndim(signal) = 1 THEN flatten(post) ELSE post, m0, [draws |-> d])

\* the signals emd_augmentation is called with: one column, or two of one sample
EmdSignals == {a \in Signals : ndim(a) = 1 \/ a.shape[1] = 1 \/ a.shape[2] = 1}
EmdPostParams == {<<0, None, None>>, <<1, Some(0), Some(1)>>}

emd_augmentation ==
    /\ pc = "idle"
    /\ \E signal \in EmdSignals \cup BadRankSignals, n_imf \in NImfs, imf_rate \in ImfRates,
          prob \in Probs, pp \in EmdPostParams :
         \E d \in (IF ndim(signal) \in {1, 2}
                   THEN LET s2d == IF ndim(signal) = 1 THEN reshape(signal) ELSE signal
                        IN  SeqProduct([i \in 1..s2d.shape[2] |->
                                EmdColumnDraws(Col(s2d, i), n_imf, imf_rate, prob)])
                   ELSE {<<>>}) :
           Finish("emd_augmentation",
                  [signal1 |-> signal, signal2 |-> NoArray, n_imf |-> n_imf,
                   imf_rate |-> imf_rate, random_weight_prob |-> prob,
                   offset |-> pp[1], clip_min |-> pp[2], clip_max |-> pp[3]],
                  EmdRun(signal, imf_rate, pp[1], pp[2], pp[3], d))

\* ------------------------------------------------------ WaveAug (pywt, "db1")
\* A coefficient of decomposition level j is held as the integer n, its value
\* being n / sqrt(2)^j.  "symmetric" mode repeats the last sample of an odd length.
DwtLen(N) == (N + 1) \div 2
Sample(x, k) == IF k <= Len(x) THEN x[k] ELSE x[Len(x)]
\* pywt.dwt(x, "db1", mode="symmetric"): <<cA, cD>>
dwt(x) ==
    <<Tup([i \in 1..DwtLen(Len(x)) |-> Sample(x, 2 * i - 1) + Sample(x, 2 * i)]),
      Tup([i \in 1..DwtLen(Len(x)) |-> Sample(x, 2 * i - 1) - Sample(x, 2 * i)])>>

RECURSIVE wavedec(_, _)
\* pywt.wavedec(x, level=level): <<cA_level, cD_level, ..., cD_1>>
wavedec(x, level) ==
    IF level = 0 THEN <<x>>
    ELSE LET ad == dwt(x) IN wavedec(ad[1], level - 1) \o <<ad[2]>>

\* pywt.idwt(a, d): a is [data, den], d are integers of the same level
idwt(a, d) ==
    [data |-> Tup([k \in 1..(2 * Len(d)) |->
                  IF k % 2 = 1 THEN a.data[(k + 1) \div 2] + a.den * d[(k + 1) \div 2]
                  ELSE a.data[k \div 2] - a.den * d[k \div 2]]),
     den |-> 2 * a.den]

RECURSIVE waverecFrom(_, _, _)
\* the loop of pywt.waverec over the detail arrays ds[j..]: an approximation one
\* longer than the next detail array loses its last sample
waverecFrom(a, ds, j) ==
    IF j > Len(ds) THEN a
    ELSE LET d == ds[j]
             a1 == IF Len(a.data) = Len(d) + 1
                   THEN [data |-> SubSeq(a.data, 1, Len(d)), den |-> a.den] ELSE a
         IN  waverecFrom(idwt(a1, d), ds, j + 1)

\* pywt.waverec(coeffs): [data, den]
waverec(coeffs) == waverecFrom([data |-> coeffs[1], den |-> 1], Tail(coeffs), 1)

\* the lengths pywt gives a filter of length L: dwt_coeff_len and the idwt's output
DwtCoeffLen(N, L) == (N + L - 1) \div 2
IdwtLen(n, L) == 2 * n - L + 2
RECURSIVE WaverecLen(_, _, _)
\* the length of waverec(wavedec(x, level)) for len(x) = N and filter length L
WaverecLen(N, L, level) ==
    IF level = 0 THEN N
    ELSE LET n == DwtCoeffLen(N, L)
             below == WaverecLen(n, L, level - 1)
         IN  IdwtLen(IF below = n + 1 THEN n ELSE below, L)
FilterLengths == {2, 4, 6, 8}

\* rates and uniform draws are numerators over UniformDen
UniformDen == 4
Uniforms == {1, 3}
RatesLists == {<<>>, <<0>>, <<2>>, <<4>>, <<4, 0>>, <<0, 0, 0>>, <<0, 4, 2>>}
Levels == 1..MaxLevel

\* rates[min(i, len(rates) - 1)], i counted from 0; rates is not empty
SelectedRate(rates, i) == rates[Min(i, Len(rates) - 1) + 1]

\* the masks np.random.uniform(0, 1, c.shape) < selected_rate can give an array of n
Masks(n, rate) == {Tup(f) : f \in [1..n -> {u < rate : u \in Uniforms}]}

NoTruncate(s, time_steps) == s
\* s[:time_steps]
Truncate(s, time_steps) == SubSeq(s, 1, Min(time_steps, Len(s)))

\* range(len(coeffs1)): augment_multi mixes every coefficient array, the first included
FirstMixedIndex == 0
\* range(1, len(coeffs)): the first coefficient array that is masked
FirstMaskedIndex == 1

\* coeffs[i] = np.where(m, 0, c_i), for the arrays from FirstMaskedIndex on
MaskCoeffs(coeffs, masks) ==
    Tup([p \in 1..Len(coeffs) |->
        IF p - 1 >= FirstMaskedIndex
        THEN Tup([k \in 1..Len(coeffs[p]) |-> IF masks[p][k] THEN 0 ELSE coeffs[p][k]])
        ELSE coeffs[p]])

\* np.where(mask, c1, c2) for every coefficient array
MixCoeffs(coeffs1, coeffs2, masks) ==
    Tup([p \in 1..Len(coeffs1) |->
        Tup([k \in 1..Len(coeffs1[p]) |->
                IF masks[p][k] THEN coeffs1[p][k] ELSE coeffs2[p][k]])])

\* the masks one column can draw, one per coefficient array from index `first` on
\* (the arrays before it get an all-FALSE mask, which is not drawn)
ColumnMasks(coeffs, rates, first) ==
    SeqProduct([p \in 1..Len(coeffs) |->
        IF p - 1 >= first
        THEN Masks(Len(coeffs[p]), SelectedRate(rates, p - 1))
        ELSE {Tup([k \in 1..Len(coeffs[p]) |-> FALSE])}])

\* the columns of the result, brought to the common scale 2^level
WaveResult(recs, time_steps, features, signal, m0, x) ==
    LET cols == Tup([i \in 1..features |-> Truncate(recs[i].data, time_steps)])
    IN  IF \E i \in 1..features : Len(cols[i]) # time_steps
        THEN Raised("ValueError", m0, x)
        ELSE LET s_mask == FromCols(cols, time_steps, features, recs[1].den)
             IN  Returned(IF ndim(signal) = 1 THEN flatten(s_mask) ELSE s_mask, m0, x)

AugmentRun(signal, rates, level, masks) ==
    LET m0 == Memory(signal, NoArray)
        s2d == IF ndim(signal) = 1 THEN reshape(signal) ELSE signal
    IN  IF ndim(s2d) # 2 THEN Raised("ValueError", m0, [rank |-> ndim(signal)])
        ELSE IF Len(rates) = 0 THEN Raised("IndexError", m0, [rank |-> ndim(signal)])
        ELSE
          LET time_steps == s2d.shape[1]
              num_features == s2d.shape[2]
              decomposed == Tup([i \in 1..num_features |-> wavedec(Col(s2d, i), level)])
              coeffs == Tup([i \in 1..num_features |-> MaskCoeffs(decomposed[i], masks[i])])
              recs == Tup([i \in 1..num_features |-> waverec(coeffs[i])])
          IN  WaveResult(recs, time_steps, num_features, signal, m0,
                         [decomposed |-> decomposed, coeffs |-> coeffs, masks |-> masks,
                          reclen |-> [L \in FilterLengths |-> WaverecLen(time_steps, L, level)]])

\* the draws of a call on a (T, F) signal: per column, the masks
WaveDraws(s2d, rates, level, first) ==
    IF Len(rates) = 0 THEN {<<>>}
    ELSE SeqProduct([i \in 1..s2d.shape[2] |->
             ColumnMasks(wavedec(Col(s2d, i), level), rates, first)])

augment ==
    /\ pc = "idle"
    /\ \E signal \in Signals \cup BadRankSignals, rates \in RatesLists, level \in Levels :
         \E masks \in (IF ndim(signal) \in {1, 2}
                       THEN WaveDraws(IF ndim(signal) = 1 THEN reshape(signal) ELSE signal,
                                      rates, level, FirstMaskedIndex)
                       ELSE {<<>>}) :
           Finish("augment",
                  [signal1 |-> signal, signal2 |-> NoArray, rates |-> rates, level |-> level],
                  AugmentRun(signal, rates, level, masks))

AugmentMultiRun(signal1, signal2, rates, level, masks) ==
    LET m0 == Memory(signal1, signal2)
        s1 == IF ndim(signal1) = 1 THEN reshape(signal1) ELSE signal1
        s2 == IF ndim(signal1) = 1 THEN reshape(signal2) ELSE signal2
    IN  IF ~SameShape(signal1, signal2) THEN Raised("ValueError", m0, [rank |-> ndim(signal1)])
        ELSE IF ndim(s1) # 2 THEN Raised("ValueError", m0, [rank |-> ndim(signal1)])
        ELSE IF Len(rates) = 0 THEN Raised("IndexError", m0, [rank |-> ndim(signal1)])
        ELSE
          LET time_steps == s1.shape[1]
              num_features == s1.shape[2]
              coeffs1 == Tup([i \in 1..num_features |-> wavedec(Col(s1, i), level)])
              coeffs2 == Tup([i \in 1..num_features |-> wavedec(Col(s2, i), level)])
              mixed_coeffs == Tup([i \in 1..num_features |->
                                  MixCoeffs(coeffs1[i], coeffs2[i], masks[i])])
              recs == Tup([i \in 1..num_features |-> waverec(mixed_coeffs[i])])
          IN  WaveResult(recs, time_steps, num_features, signal1, m0,
                         [coeffs1 |-> coeffs1, coeffs2 |-> coeffs2, coeffs |-> mixed_coeffs,
                          masks |-> masks,
                          reclen |-> [L \in FilterLengths |-> WaverecLen(time_steps, L, level)]])

augment_multi ==
    /\ pc = "idle"
    /\ \E signal1 \in Signals \cup BadRankSignals, rates \in RatesLists, level \in Levels :
         \E signal2 \in {Reversed(signal1), OtherShape(signal1)} :
           \E masks \in (IF ndim(signal1) \in {1, 2} /\ SameShape(signal1, signal2)
                         THEN WaveDraws(IF ndim(signal1) = 1 THEN reshape(signal1) ELSE signal1,
                                        rates, level, FirstMixedIndex)
                         ELSE {<<>>}) :
             Finish("augment_multi",
                    [signal1 |-> signal1, signal2 |-> signal2, rates |-> rates, level |-> level],
                    AugmentMultiRun(signal1, signal2, rates, level, masks))

\* ------------------------------------------------------------ properties
ValidRank(a) == ndim(a) \in {1, 2}
TwoSignalOps == {"mix_augmentation", "augment_multi"}
WaveOps == {"augment", "augment_multi"}
PostOps == {"dominant_shuffle", "emd_augmentation", "mix_augmentation"}
\* the call was made with the arguments its operator documents
ValidCall ==
    /\ pc # "idle"
    /\ ValidRank(arg.signal1)
    /\ op \in TwoSignalOps => arg.signal2.shape = arg.signal1.shape
    /\ op \in WaveOps => Len(arg.rates) >= 1
NumFeatures(a) == IF ndim(a) = 2 THEN a.shape[2] ELSE 1
\* element (t, i) of a rank-1 or rank-2 array, as a numerator over a.den
At(a, t, i) == a.data[(t - 1) * NumFeatures(a) + i]
NoPost == arg.offset = 0 /\ arg.clip_min = None /\ arg.clip_max = None

\* C1: every operator returns, for every valid input of rank 1 or 2, an array of
\* the input's shape; the wavelet reconstruction, whatever the filter length and
\* the level, is never shorter than T, so that its first T samples are T samples.
C1_ShapePreserved ==
    ValidCall =>
        /\ pc = "returned"
        /\ out.shape = arg.signal1.shape
        /\ Len(out.data) = Prod(arg.signal1.shape)
        /\ op \in WaveOps =>
              \A L \in FilterLengths : aux.reclen[L] >= arg.signal1.shape[1]

\* a wavelet call on an odd number of samples, whose reconstruction is one longer
C1_Witness ==
    /\ pc = "returned"
    /\ op = "augment"
    /\ arg.signal1.shape = <<3>>
    /\ arg.level = 2
    /\ aux.reclen[2] = 4
    /\ out.shape = <<3>>

\* C2: with a clip bound given (and clip_min <= clip_max when both are), every
\* element returned by dominant_shuffle, emd_augmentation and mix_augmentation
\* lies within the bounds given, whatever the offset.
C2_Clipped ==
    (/\ pc = "returned"
     /\ op \in PostOps
     /\ arg.clip_min # None \/ arg.clip_max # None
     /\ (arg.clip_min # None /\ arg.clip_max # None) => arg.clip_min[1] <= arg.clip_max[1])
    => \A k \in 1..Len(out.data) :
          /\ arg.clip_min # None => out.data[k] >= arg.clip_min[1] * out.den
          /\ arg.clip_max # None => out.data[k] <= arg.clip_max[1] * out.den

\* a shuffle whose offset lifts a sample to the upper bound, where it is held
C2_Witness ==
    /\ pc = "returned"
    /\ op = "dominant_shuffle"
    /\ arg.offset = 1
    /\ arg.clip_min = Some(0)
    /\ arg.clip_max = Some(1)
    /\ \E k \in 1..Len(out.data) : arg.signal1.data[k] = 1 /\ out.data[k] = out.den
    /\ \E k \in 1..Len(out.data) : out.data[k] > 0 /\ out.data[k] < out.den

\* the bins topk_indices names for column i
Candidates(i) == {aux.topk_indices[i][j] : j \in 1..Len(aux.topk_indices[i])}

\* C3: for every integer rate <= floor(T/2), exactly `rate` bins per column are
\* candidates, the DC bin is none of them, and every other bin keeps its value.
C3_ExactlyRateCandidates ==
    (/\ pc = "returned"
     /\ op = "dominant_shuffle"
     /\ arg.rate <= arg.signal1.shape[1] \div 2)
    => \A i \in 1..NumFeatures(arg.signal1) :
          /\ Cardinality(Candidates(i)) = arg.rate
          /\ 0 \notin Candidates(i)
          /\ \A b \in 0..(Len(aux.signal_f[i]) - 1) :
                b \notin Candidates(i) => aux.new_signal_f[i][b + 1] = aux.signal_f[i][b + 1]

\* the same for 1 <= rate <= floor(T/2), which the code satisfies
C3_PositiveRate ==
    (/\ pc = "returned"
     /\ op = "dominant_shuffle"
     /\ arg.rate >= 1
     /\ arg.rate <= arg.signal1.shape[1] \div 2)
    => \A i \in 1..NumFeatures(arg.signal1) :
          /\ Cardinality(Candidates(i)) = arg.rate
          /\ 0 \notin Candidates(i)
          /\ \A b \in 0..(Len(aux.signal_f[i]) - 1) :
                b \notin Candidates(i) => aux.new_signal_f[i][b + 1] = aux.signal_f[i][b + 1]

C5_EveryOperatorChecksRank ==
    pc # "idle" =>
        /\ (op \in TwoSignalOps /\ arg.signal2.shape # arg.signal1.shape)
              => (pc = "raised" /\ err = "ValueError" /\ out = NoArray)
        /\ ~ValidRank(arg.signal1) => (pc = "raised" /\ out = NoArray)

\* C5 amended: two-signal operators fail on differing shapes; the operators that
\* unpack (time_steps, features) fail on a rank that is not 1 or 2; mix_augmentation
\* does not look at the rank, fails only on rank 0 and returns a result of the
\* inputs' shape otherwise.
C5_ShapeChecks ==
    pc # "idle" =>
        /\ (op \in TwoSignalOps /\ arg.signal2.shape # arg.signal1.shape)
              => (pc = "raised" /\ err = "ValueError" /\ out = NoArray)
        /\ (op # "mix_augmentation" /\ ~ValidRank(arg.signal1))
              => (pc = "raised" /\ out = NoArray)
        /\ (op = "mix_augmentation" /\ arg.signal2.shape = arg.signal1.shape)
              => IF ndim(arg.signal1) = 0 THEN pc = "raised" /\ out = NoArray
                 ELSE pc = "returned" /\ out.shape = arg.signal1.shape

\* two signals of four samples each, one (2, 2) and one (4,): the call fails
C5_Witness ==
    /\ pc = "raised"
    /\ op = "mix_augmentation"
    /\ arg.signal1.shape = <<2, 2>>
    /\ arg.signal2.shape = <<4>>
    /\ err = "ValueError"
    /\ out = NoArray

RECURSIVE C6_ModeSum(_, _, _)
\* the sum over the first j modes of column draw d at time t, weight 1 being
\* WeightDen / WeightDen
C6_ModeSum(d, t, j) ==
    IF j = 0 THEN 0
    ELSE C6_ModeSum(d, t, j - 1)
         + (IF d.random THEN d.rand[j] ELSE WeightDen) * d.IMF[j][t]

\* C6: without offset and clipping, a column for which the solver returns no mode
\* is returned as it is; any other column is the weighted sum of the first
\* max(1, floor(len(IMF) * imf_rate)) modes, the weights being all 1 or, when the
\* column's one Bernoulli trial says so, drawn per mode from [0, 2).
C6_EmdColumns ==
    (/\ pc = "returned"
     /\ op = "emd_augmentation"
     /\ NoPost)
    => \A i \in 1..NumFeatures(arg.signal1) :
          LET d == aux.draws[i]
              len == Len(d.IMF)
              n == (len * arg.imf_rate) \div ImfRateDen
              kept == IF n < 1 THEN 1 ELSE IF n > len THEN len ELSE n
          IN  IF len = 0
              THEN \A t \in 1..arg.signal1.shape[1] :
                      At(out, t, i) = out.den * At(arg.signal1, t, i)
              ELSE /\ d.random =>
                        /\ Len(d.rand) = kept
                        /\ \A j \in 1..kept : d.rand[j] >= 0 /\ d.rand[j] < 2 * WeightDen
                   /\ \A t \in 1..arg.signal1.shape[1] :
                        At(out, t, i) * WeightDen = out.den * C6_ModeSum(d, t, kept)

\* two columns: the first falls back, the second is two modes with the weights
\* 1/2 and 3/2
C6_Witness ==
    /\ pc = "returned"
    /\ op = "emd_augmentation"
    /\ NoPost
    /\ arg.signal1.shape = <<1, 2>>
    /\ arg.signal1.data = <<1, 1>>
    /\ arg.imf_rate = 2
    /\ aux.draws[1].IMF = <<>>
    /\ Len(aux.draws[2].IMF) = 2
    /\ aux.draws[2].random
    /\ aux.draws[2].rand = <<1, 3>>

\* C7: WaveAug.augment hands the approximation array to the inverse transform as
\* decomposed, and every detail coefficient as decomposed or as zero; with every
\* rate 0 nothing is zeroed and the result is the round trip of the input.
C7_ApproximationKept ==
    (pc = "returned" /\ op = "augment")
    => /\ \A i \in 1..NumFeatures(arg.signal1) :
             /\ Len(aux.coeffs[i]) = arg.level + 1
             /\ aux.coeffs[i][1] = aux.decomposed[i][1]
             /\ \A p \in 2..Len(aux.coeffs[i]) : \A k \in 1..Len(aux.coeffs[i][p]) :
                   aux.coeffs[i][p][k] \in {aux.decomposed[i][p][k], 0}
       /\ (\A q \in 1..Len(arg.rates) : arg.rates[q] = 0)
             => (aux.coeffs = aux.decomposed /\ SameArray(out, arg.signal1))

\* three samples, two levels, every rate 0, a detail coefficient that is not 0
C7_Witness ==
    /\ pc = "returned"
    /\ op = "augment"
    /\ arg.rates = <<0, 0, 0>>
    /\ arg.level = 2
    /\ arg.signal1.shape = <<3>>
    /\ \E p \in 2..3 : \E k \in 1..Len(aux.decomposed[1][p]) : aux.decomposed[1][p][k] # 0
    /\ aux.decomposed[1][1] # <<0>>

\* the rate of coefficient array i (from 0) is rates[min(i, len(rates) - 1)]: where
\* it is 0 nothing is picked by the mask, where it is 1 everything is
C8_RatesClamped ==
    \A i \in 1..NumFeatures(arg.signal1) : \A p \in 1..(arg.level + 1) :
        (p - 1 >= (IF op = "augment" THEN 1 ELSE 0)) =>
            LET q == IF p - 1 < Len(arg.rates) - 1 THEN p - 1 ELSE Len(arg.rates) - 1
                r == arg.rates[q + 1]
            IN  \A k \in 1..Len(aux.masks[i][p]) :
                   /\ r = 0 => ~aux.masks[i][p][k]
                   /\ r >= UniformDen => aux.masks[i][p][k]

C8_ShuffleAll ==
    (/\ pc # "idle"
     /\ op = "dominant_shuffle"
     /\ ValidRank(arg.signal1)
     /\ arg.rate > arg.signal1.shape[1] \div 2)
    => /\ pc = "returned"
       /\ \A i \in 1..NumFeatures(arg.signal1) :
             Candidates(i) = 1..(arg.signal1.shape[1] \div 2)

\* C8 as claimed: a rate above floor(T/2) selects every non-DC bin, and a rates
\* list of any length below the number of levels is extended by its last entry;
\* neither raises.
C8_NeverRaises ==
    /\ C8_ShuffleAll
    /\ (/\ pc # "idle"
        /\ op \in WaveOps
        /\ ValidRank(arg.signal1)
        /\ op = "augment_multi" => arg.signal2.shape = arg.signal1.shape
        /\ Len(arg.rates) < arg.level)
       => (pc = "returned" /\ C8_RatesClamped)

\* C8 amended: the same for a rates list that is not empty.
C8_NonEmptyRates ==
    /\ C8_ShuffleAll
    /\ (/\ pc # "idle"
        /\ op \in WaveOps
        /\ ValidRank(arg.signal1)
        /\ op = "augment_multi" => arg.signal2.shape = arg.signal1.shape
        /\ Len(arg.rates) >= 1
        /\ Len(arg.rates) < arg.level)
       => (pc = "returned" /\ C8_RatesClamped)

\* one rate of 1 for two levels: both detail arrays are zeroed
C8_Witness ==
    /\ pc = "returned"
    /\ op = "augment"
    /\ arg.rates = <<4>>
    /\ arg.level = 2
    /\ arg.signal1.shape = <<4>>
    /\ aux.decomposed[1][3] # <<0, 0>>
    /\ aux.coeffs[1][2] = <<0>>
    /\ aux.coeffs[1][3] = <<0, 0>>

\* C9: after any call, returned or raised, the caller's signal arrays hold what
\* they held before it.
C9_InputsUnchanged ==
    pc # "idle" => (sig1 = arg.signal1 /\ sig2 = arg.signal2)

\* a mix that blends every row, adds the offset and clips
C9_Witness ==
    /\ pc = "returned"
    /\ op = "mix_augmentation"
    /\ arg.signal1.shape = <<2, 2>>
    /\ arg.mix_rate = 2
    /\ arg.offset = 1
    /\ arg.clip_max = Some(1)
    /\ ~SameArray(out, arg.signal1)
    /\ sig1 = arg.signal1

NoCall ==
    [pc |-> "idle", op |-> "", signal1 |-> NoArray, signal2 |-> NoArray, rate |-> 0,
     mix_rate |-> 0, offset |-> 0, rng0 |-> 0, drawn |-> <<>>, signal_f |-> <<>>,
     order |-> <<>>, topk_indices |-> <<>>, i |-> 1, j |-> 1, random_idx |-> 0,
     lam |-> 0, result |-> NoArray]

\* ------------------------------------------------ calls running concurrently
\* Two callers, each making one call; a step is one statement of the source.  The
\* generator behind np.random is one per process: a draw returns its state and
\* advances it.
Procs == {1, 2}
RngPeriod == 4
RngNext(s) == (s + 1) % RngPeriod
RECURSIVE RngAt(_, _)
\* the state of the generator n draws after state s
RngAt(s, n) == IF n = 0 THEN s ELSE RngNext(RngAt(s, n - 1))

SharedArray(p) == 1
\* signal_f.copy(), signal1.copy(): the array a call creates is that call's own
NewArray(p) == p

\* np.random.choice(topk_indices[:, i]) for the raw draw r: a position in 1..k
ChoiceOf(r, k) == (r % k) + 1
\* np.random.beta(alpha, alpha) for the raw draw r: a numerator in LamNums
LamOf(r) == IF r % 2 = 0 THEN 1 ELSE 2

ConcSignals ==
    {Array(<<4>>, <<1, 1, 0, 0>>, 1), Array(<<4>>, <<0, 1, 1, 0>>, 1),
     Array(<<4, 1>>, <<1, 0, 1, 1>>, 1)}
ConcRates == {1, 2}
ConcMixRates == {1, 2}

Normalized(signal) == IF ndim(signal) = 1 THEN reshape(signal) ELSE signal

\* dominant_shuffle(signal, rate) is called
shuffle_call(p) ==
    /\ calls[p].pc = "idle"
    /\ \E signal \in ConcSignals, rate \in ConcRates :
         calls' = [calls EXCEPT ![p] =
                      [NoCall EXCEPT !.pc = "rfft", !.op = "dominant_shuffle",
                                     !.signal1 = signal, !.rate = rate, !.rng0 = rng]]
    /\ UNCHANGED <<rng, heap>>
    /\ UNCHANGED callvars

\* the spectrum, the top-k bins and the copy that is to be modified
shuffle_rfft(p) ==
    /\ calls[p].pc = "rfft"
    /\ LET c == calls[p]
           s2d == Normalized(c.signal1)
           features == s2d.shape[2]
           signal_f == Tup([i \in 1..features |-> rfft(Col(s2d, i))])
           order == Tup([i \in 1..features |->
                        CHOOSE o \in Argsorts(signal_f[i], s2d.shape[1]) : TRUE])
           topk_indices == Tup([i \in 1..features |-> Topk(order[i], c.rate)])
       IN  /\ heap' = [heap EXCEPT ![NewArray(p)].new_signal_f = signal_f]
           /\ calls' = [calls EXCEPT ![p] =
                  [c EXCEPT !.signal_f = signal_f, !.order = order,
                            !.topk_indices = topk_indices,
                            !.pc = IF Len(topk_indices[1]) = 0 THEN "irfft" ELSE "choice"]]
    /\ UNCHANGED rng
    /\ UNCHANGED callvars

\* random_idx = np.random.choice(topk_indices[:, i])
shuffle_choice(p) ==
    /\ calls[p].pc = "choice"
    /\ LET c == calls[p]
           column == c.topk_indices[c.i]
       IN  calls' = [calls EXCEPT ![p] =
              [c EXCEPT !.random_idx = column[ChoiceOf(rng, Len(column))],
                        !.drawn = Append(c.drawn, rng), !.pc = "assign"]]
    /\ rng' = RngNext(rng)
    /\ UNCHANGED heap
    /\ UNCHANGED callvars

\* new_signal_f[idx, i] = signal_f[random_idx, i], and on to the next j or i
shuffle_assign(p) ==
    /\ calls[p].pc = "assign"
    /\ LET c == calls[p]
           k == Len(c.topk_indices[c.i])
           idx == c.topk_indices[c.i][c.j]
           last == c.j = k /\ c.i = Len(c.topk_indices)
       IN  /\ heap' = [heap EXCEPT ![NewArray(p)].new_signal_f[c.i][idx + 1] =
                          c.signal_f[c.i][c.random_idx + 1]]
           /\ calls' = [calls EXCEPT ![p] =
                  [c EXCEPT !.j = IF c.j < k THEN c.j + 1 ELSE 1,
                            !.i = IF c.j < k THEN c.i ELSE c.i + 1,
                            !.pc = IF last THEN "irfft" ELSE "choice"]]
    /\ UNCHANGED rng
    /\ UNCHANGED callvars

\* the inverse transform of the modified copy, the offset, the original shape
shuffle_return(p) ==
    /\ calls[p].pc = "irfft"
    /\ LET c == calls[p]
           s2d == Normalized(c.signal1)
           new_signal_f == heap[NewArray(p)].new_signal_f
           cols == Tup([i \in 1..s2d.shape[2] |-> irfft(new_signal_f[i], s2d.shape[1])])
           post == PostProcess(FromCols(cols, s2d.shape[1], s2d.shape[2], 2 * s2d.shape[1]),
                               c.offset, None, None)
       IN  calls' = [calls EXCEPT ![p] =
              [c EXCEPT !.result = IF ndim(c.signal1) = 1 THEN flatten(post) ELSE post,
                        !.pc = "returned"]]
    /\ UNCHANGED <<rng, heap>>
    /\ UNCHANGED callvars

\* mix_augmentation(signal1, signal2, mix_rate=mix_rate) is called; the shapes agree
mix_call(p) ==
    /\ calls[p].pc = "idle"
    /\ \E signal1 \in ConcSignals, mix_rate \in ConcMixRates :
         calls' = [calls EXCEPT ![p] =
                      [NoCall EXCEPT !.pc = "beta", !.op = "mix_augmentation",
                                     !.signal1 = signal1, !.signal2 = Reversed(signal1),
                                     !.mix_rate = mix_rate, !.rng0 = rng]]
    /\ UNCHANGED <<rng, heap>>
    /\ UNCHANGED callvars

\* lam = np.random.beta(alpha, alpha)
mix_beta(p) ==
    /\ calls[p].pc = "beta"
    /\ calls' = [calls EXCEPT ![p] =
          [calls[p] EXCEPT !.lam = LamOf(rng), !.drawn = Append(calls[p].drawn, rng),
                           !.pc = "copy"]]
    /\ rng' = RngNext(rng)
    /\ UNCHANGED heap
    /\ UNCHANGED callvars

\* mixed_signal = signal1.copy()
mix_copy(p) ==
    /\ calls[p].pc = "copy"
    /\ heap' = [heap EXCEPT ![NewArray(p)].mixed_signal = calls[p].signal1]
    /\ calls' = [calls EXCEPT ![p].pc = "blend"]
    /\ UNCHANGED rng
    /\ UNCHANGED callvars

\* mixed_signal[:mix_length] = lam * signal1[:mix_length] + (1 - lam) * signal2[:mix_length]
mix_blend(p) ==
    /\ calls[p].pc = "blend"
    /\ LET c == calls[p]
       IN  heap' = [heap EXCEPT ![NewArray(p)].mixed_signal =
              MixPrefix(heap[NewArray(p)].mixed_signal, c.signal1, c.signal2, c.lam,
                        MixLength(c.signal1.shape[1], c.mix_rate))]
    /\ calls' = [calls EXCEPT ![p].pc = "offset"]
    /\ UNCHANGED rng
    /\ UNCHANGED callvars

\* mixed_signal += offset; return mixed_signal
mix_return(p) ==
    /\ calls[p].pc = "offset"
    /\ calls' = [calls EXCEPT ![p] =
          [calls[p] EXCEPT !.result = AddOffset(heap[NewArray(p)].mixed_signal, calls[p].offset),
                           !.pc = "returned"]]
    /\ UNCHANGED <<rng, heap>>
    /\ UNCHANGED callvars

\* what the call returns when its draws are `raws`, computed in one piece
ResultWith(c, raws) ==
    IF c.op = "dominant_shuffle"
    THEN LET k == Len(c.topk_indices[1])
             choice == [i \in 1..Len(c.topk_indices) |->
                           [j \in 1..k |-> ChoiceOf(raws[(i - 1) * k + j], k)]]
         IN  ShuffleRun(c.signal1, c.rate, c.offset, None, None,
                        [order |-> c.order, choice |-> choice]).out
    ELSE MixRun(c.signal1, c.signal2, LamOf(raws[1]), c.mix_rate, c.offset, None, None).out

\* the draws the call would have made from the generator state it started in
AloneRaws(c) == [n \in 1..Len(c.drawn) |-> RngAt(c.rng0, n - 1)]

\* C10 as claimed: every concurrent call returns what it would have returned
\* alone, started in the same state (the generator's included).
C10_SameAsAlone ==
    \A p \in DOMAIN calls :
        calls[p].pc = "returned" => calls[p].result = ResultWith(calls[p], AloneRaws(calls[p]))

\* C10 amended: the generator is the one state the calls share; every array a
\* call writes is its own, so each call returns what it would return alone for
\* the draws it received.
C10_SharesOnlyGenerator ==
    \A p \in DOMAIN calls :
        calls[p].pc = "returned" => calls[p].result = ResultWith(calls[p], calls[p].drawn)

\* two shuffles have returned, the draws of the first interleaved with the second's
C10_Witness ==
    /\ DOMAIN calls = Procs
    /\ \A p \in Procs : calls[p].pc = "returned" /\ calls[p].op = "dominant_shuffle"
    /\ Len(calls[1].drawn) = 2
    /\ calls[1].drawn # AloneRaws(calls[1])
    /\ calls[1].signal1 # calls[2].signal1

\* --------------------------------------------------------- specification
Init ==
    /\ pc = "idle"
    /\ op = ""
    /\ arg = [signal1 |-> NoArray]
    /\ sig1 = NoArray
    /\ sig2 = NoArray
    /\ out = NoArray
    /\ err = ""
    /\ aux = [lam |-> 0]
    /\ rng = 0
    /\ heap = <<>>
    /\ calls = <<>>

\* one call, from its arguments to its return or its exception
Next ==
    \/ dominant_shuffle
    \/ emd_augmentation
    \/ mix_augmentation
    \/ augment
    \/ augment_multi

Spec == Init /\ [][Next]_vars

ConcInit ==
    /\ pc = "idle"
    /\ op = ""
    /\ arg = [signal1 |-> NoArray]
    /\ sig1 = NoArray
    /\ sig2 = NoArray
    /\ out = NoArray
    /\ err = ""
    /\ aux = [lam |-> 0]
    /\ rng = 0
    /\ heap = [b \in Procs |-> [new_signal_f |-> <<>>, mixed_signal |-> NoArray]]
    /\ calls = [p \in Procs |-> NoCall]

\* the steps of two calls, interleaved in any order
ConcNext ==
    \/ \E p \in Procs : shuffle_call(p)
    \/ \E p \in Procs : shuffle_rfft(p)
    \/ \E p \in Procs : shuffle_choice(p)
    \/ \E p \in Procs : shuffle_assign(p)
    \/ \E p \in Procs : shuffle_return(p)
    \/ \E p \in Procs : mix_call(p)
    \/ \E p \in Procs : mix_beta(p)
    \/ \E p \in Procs : mix_copy(p)
    \/ \E p \in Procs : mix_blend(p)
    \/ \E p \in Procs : mix_return(p)

ConcSpec == ConcInit /\ [][ConcNext]_vars

====
